---- MODULE Spec2Model ----
(***************************************************************************)
(* Model of lhc, the license header checker (src/lhc.go, and the earlier   *)
(* revision src/unnamed/part_000).                                         *)
(*                                                                         *)
(* A Go string is a sequence of tokens.  The punctuation the code looks    *)
(* at is kept one character per token; a word the code only ever tests    *)
(* whole is one token.  A file is a sequence of lines.                     *)
(***************************************************************************)
EXTENDS Integers, Sequences, FiniteSets, TLC

\* ------------------------------------------------------------------ strings

\* strings.ToUpper on one token.
UpperTok(t) ==
    CASE t = "a" -> "A"
      [] t = "b" -> "B"
      [] t = "Copyright" -> "COPYRIGHT"
      [] t = "SPDX-License-Identifier" -> "SPDX-LICENSE-IDENTIFIER"
      [] t = "License" -> "LICENSE"
      [] t = "Contributors" -> "CONTRIBUTORS"
      [] t = "All rights reserved." -> "ALL RIGHTS RESERVED."
      [] t = "Apache-2.0" -> "APACHE-2.0"
      [] t = "mit" -> "MIT"
      [] OTHER -> t

ToUpper(s) == [k \in 1..Len(s) |-> UpperTok(s[k])]

HasPrefix(s, p) == Len(s) >= Len(p) /\ SubSeq(s, 1, Len(p)) = p

\* The offsets at which p occurs in s.
Occurrences(s, p) == {k \in 0..(Len(s) - Len(p)) : SubSeq(s, k + 1, k + Len(p)) = p}

Contains(s, p) == Occurrences(s, p) # {}

Min(S) == CHOOSE x \in S : \A y \in S : x <= y

\* strings.TrimPrefix
TrimPrefix(s, p) == IF HasPrefix(s, p) THEN SubSeq(s, Len(p) + 1, Len(s)) ELSE s

\* strings.TrimLeft: drop every leading character that is in the cutset.
RECURSIVE TrimLeft(_, _)
TrimLeft(s, cutset) ==
    IF s # <<>> /\ Head(s) \in cutset THEN TrimLeft(Tail(s), cutset) ELSE s

\* strings.Split(s, sep)[0]: the text before the first sep (all of s without one).
SplitHead(s, sep) ==
    IF Contains(s, sep) THEN SubSeq(s, 1, Min(Occurrences(s, sep))) ELSE s

\* strings.SplitN(s, sep, 2)[1]: the text after the first sep.
SplitAfter(s, sep) == SubSeq(s, Min(Occurrences(s, sep)) + Len(sep) + 1, Len(s))

\* strings.Replace(s, old, "", -1) for a one-token old.
RemoveAll(s, tok) == SelectSeq(s, LAMBDA t : t # tok)

\* unicode.IsSpace
IsSpace(t) == t = " "

stripSpaces(str) == SelectSeq(str, LAMBDA t : ~IsSpace(t))

\* ------------------------------------------------- src/lhc.go, final revision

LICENSE_HEADER_LINES_MAX == 50

isComment(str) ==
    ~(~HasPrefix(str, <<"#">>) /\ ~HasPrefix(str, <<"/", "/">>) /\ ~HasPrefix(str, <<"/", "*">>))

trimComment(str) ==
    LET s1 == TrimLeft(str, {"#"})
        s2 == TrimLeft(s1, {"/"})
        s3 == TrimLeft(s2, {"/", "*"})
        s4 == TrimLeft(s3, {" ", "*"})
        s5 == SplitHead(s4, <<"*", "/">>)
    IN  TrimLeft(s5, {"*"})

ignoreComment(str) ==
    LET s == ToUpper(trimComment(str))
    IN  \/ HasPrefix(s, <<"#", "!">>)
        \/ HasPrefix(s, <<"COPYRIGHT">>)
        \/ HasPrefix(s, <<"SPDX-LICENSE-IDENTIFIER">>)
        \/ HasPrefix(s, <<"MIT", " ", "LICENSE">>)

\* The first two bytes of a file, read before the scan (a shorter first line is
\* followed by its newline, which no comment prefix contains).
FirstBytes(line) == SubSeq(line, 1, IF Len(line) < 2 THEN Len(line) ELSE 2)

\* fetchLicense's locals before the loop; b is the two bytes read, or <<>> for a
\* registry text, which is never comment-stripped.
Open(b) ==
    [i |-> 0, comment |-> isComment(b), multilineComment |-> FALSE,
     licenseText |-> <<>>, done |-> FALSE]

\* The line as the loop sees it: upper-cased, "ALL RIGHTS RESERVED." removed.
Normalise(line) == RemoveAll(ToUpper(line), "ALL RIGHTS RESERVED.")

\* The multi-line flag after the if / else-if of lines 331-335.
BlockFlag(flag, s) ==
    IF HasPrefix(s, <<"/", "*">>) THEN TRUE
    ELSE IF Contains(s, <<"*", "/">>) THEN FALSE
    ELSE flag

\* The test of lines 337-341, on the updated flag.
SkipLine(flag, s) ==
    \/ ~flag /\ ~isComment(s)
    \/ Contains(ToUpper(s), <<" ", "*", " ", "CONTRIBUTORS", ":">>)

\* One iteration of fetchLicense's loop, final revision.
Step(st, line) ==
    LET i == st.i + 1
        s == Normalise(line)
        m == BlockFlag(st.multilineComment, s)
    IN  IF i > LICENSE_HEADER_LINES_MAX THEN [st EXCEPT !.i = i, !.done = TRUE]
        ELSE IF ignoreComment(s) THEN [st EXCEPT !.i = i]
        ELSE IF st.comment
        THEN IF SkipLine(m, s)
             THEN [st EXCEPT !.i = i, !.multilineComment = m]
             ELSE [st EXCEPT !.i = i, !.multilineComment = m,
                             !.licenseText = st.licenseText \o trimComment(s)]
        ELSE [st EXCEPT !.i = i, !.licenseText = st.licenseText \o s]

\* ------------------------------------------ src/unnamed/part_000 (middle revision)

LINES_MAX_p0 == 50

ignoreComment_p0(str) ==
    LET s == ToUpper(str)
    IN  \/ HasPrefix(s, <<"#", "!">>)
        \/ Contains(s, <<"COPYRIGHT">>)
        \/ Contains(s, <<"SPDX-LICENSE-IDENTIFIER">>)
        \/ Contains(s, <<"MIT", " ", "LICENSE">>)

trimComment_p0(str) ==
    LET s1 == TrimPrefix(str, <<"#">>)
        s2 == TrimPrefix(s1, <<"/", "/">>)
        s3 == TrimPrefix(s2, <<"/", "*">>)
    IN  SplitHead(s3, <<"*", "/">>)

\* One iteration of fetchLicense's loop, middle revision: the line is not
\* upper-cased, and a line outside any comment breaks the loop.
Step_p0(st, line) ==
    LET i == st.i + 1
        s == line
        m == BlockFlag(st.multilineComment, s)
    IN  IF i > LINES_MAX_p0 THEN [st EXCEPT !.i = i, !.done = TRUE]
        ELSE IF ignoreComment_p0(s) THEN [st EXCEPT !.i = i]
        ELSE IF st.comment
        THEN IF ~m /\ ~isComment(s)
             THEN [st EXCEPT !.i = i, !.multilineComment = m, !.done = TRUE]
             ELSE [st EXCEPT !.i = i, !.multilineComment = m,
                             !.licenseText = st.licenseText \o trimComment_p0(s)]
        ELSE [st EXCEPT !.i = i, !.licenseText = st.licenseText \o s]

\* ------------------------------------------ src/lhc.go, earliest revision (1-161)

LINES_MAX_v0 == 100

\* Lines 72-76: the lines skipped before anything else, case-sensitively.
Skipped_v0(s) ==
    Contains(s, <<"Copyright">>) \/ Contains(s, <<"SPDX-License-Identifier">>)

\* Lines 79-83: the closing marker is only looked for inside a section.
BlockFlag_v0(flag, s) ==
    IF HasPrefix(s, <<"/", "*">>) THEN TRUE
    ELSE IF flag /\ Contains(s, <<"*", "/">>) THEN FALSE
    ELSE flag

\* Lines 90-93.
trimComment_v0(str) ==
    LET s1 == TrimPrefix(str, <<"#">>)
        s2 == TrimPrefix(s1, <<"/", "/">>)
        s3 == TrimPrefix(s2, <<"/", "*">>)
    IN  SplitHead(s3, <<"*", "/">>)

\* One iteration of the earliest loop: a skipped line is not counted, and the
\* count is compared after the line has been appended.
Step_v0(st, line) ==
    LET s == line
        m == BlockFlag_v0(st.multilineComment, s)
        i == st.i + 1
    IN  IF Skipped_v0(s) THEN st
        ELSE IF st.comment /\ ~m /\ ~isComment(s)
        THEN [st EXCEPT !.multilineComment = m, !.done = TRUE]
        ELSE [st EXCEPT !.i = i,
                        !.multilineComment = IF st.comment THEN m ELSE st.multilineComment,
                        !.licenseText = st.licenseText \o
                                        (IF st.comment THEN trimComment_v0(s) ELSE s),
                        !.done = (i > LINES_MAX_v0)]

\* ------------------------------------------------------ checkSPDX (230-256)

SPDXMarker == <<"SPDX-LICENSE-IDENTIFIER", ":">>

\* checkSPDX's locals: the count, whether it has returned, and what.
OpenSPDX == [i |-> 0, done |-> FALSE, found |-> FALSE]

\* One iteration of checkSPDX's loop; license is the expected short name.
StepSPDX(st, line, license) ==
    LET i == st.i + 1
        s == ToUpper(line)
    IN  IF i > LICENSE_HEADER_LINES_MAX THEN [st EXCEPT !.i = i, !.done = TRUE]
        ELSE IF Contains(s, SPDXMarker)
        THEN [st EXCEPT !.i = i, !.done = TRUE,
                        !.found = (stripSpaces(SplitAfter(s, <<":">>)) = license)]
        ELSE [st EXCEPT !.i = i]

\* ------------------------------------------------- the whole of a file at once

\* fetchLicense's loop run over all the lines of a text.
RECURSIVE ScanAll(_, _)
ScanAll(st, lines) ==
    IF lines = <<>> \/ st.done THEN st ELSE ScanAll(Step(st, Head(lines)), Tail(lines))

\* checkSPDX's loop run over all the lines of a file.
RECURSIVE ScanAllSPDX(_, _, _)
ScanAllSPDX(st, lines, name) ==
    IF lines = <<>> \/ st.done THEN st
    ELSE ScanAllSPDX(StepSPDX(st, Head(lines), name), Tail(lines), name)

\* The embedded license bodies of package license, cut down to a title, a
\* copyright line and one line of wording each.
MIT_LICENSE ==
    << <<"MIT", " ", "License">>, <<>>, <<"Copyright", " ", "a">>, <<>>, <<"a", " ", "b">> >>
APACHE_20_LICENSE == << <<"b", " ", "a">> >>
APACHE_20_LICENSE_ASF == << <<"b", " ", "b">> >>
EPL_10_LICENSE == << <<"a", " ", "a">> >>

Registry == { <<"Apache-2.0">>, <<"Apache-2.0-ASF">>, <<"EPL-1.0">>, <<"MIT">> }

RegistryText(filename) ==
    CASE filename = <<"Apache-2.0">> -> APACHE_20_LICENSE
      [] filename = <<"Apache-2.0-ASF">> -> APACHE_20_LICENSE_ASF
      [] filename = <<"EPL-1.0">> -> EPL_10_LICENSE
      [] OTHER -> MIT_LICENSE

\* The files of the directory under check, and the license file: path |-> lines.
\* No file is empty (the two-byte read of an empty file ends the process).
FileSystem ==
    (<<"license.txt">> :> << <<"a", " ", "b">> >>)
    @@ (<<"a.go">> :>
          << <<"/", "/", " ", "SPDX-License-Identifier", ":", " ", "MIT">>,
             <<"/", "/", " ", "Copyright", " ", "a">>,
             <<"/", "/", " ", "a", " ", "b">>,
             <<"a">> >>)
    @@ (<<"b.go">> :> << <<"a">> >>)
    @@ (<<"c.go">> :>
          << <<"/", "*">>,
             <<" ", "*", " ", "SPDX-License-Identifier", ":", " ", "EPL-1.0">>,
             <<" ", "*", " ", "a", " ", "b">>,
             <<" ", "*", "/">> >>)
    @@ (<<"src", "/", "gen", "/", "d.go">> :> << <<"b">> >>)
    @@ (<<"e.go">> :>
          << <<"#", " ", "SPDX-License-Identifier", ":", " ", "Apache-2.0">>,
             <<"#", " ", "b", " ", "a">> >>)
    @@ (<<"f.go">> :>
          << <<"/", "/", " ", "SPDX-License-Identifier", ":", " ", "MIT">>,
             <<"b">> >>)
    @@ (<<"gen", "/", "g.go">> :>
          << <<"/", "/", " ", "SPDX-License-Identifier", ":", " ", "mit">>,
             <<"/", "/", " ", "a", " ", "b">> >>)

\* What findFiles can return: the paths the patterns match.
SourceFiles == DOMAIN FileSystem \ { <<"license.txt">> }

\* fetchLicense from file and return license text.
fetchLicense(filename) ==
    IF filename \in Registry
    THEN stripSpaces(ScanAll(Open(<<>>), RegistryText(filename)).licenseText)
    ELSE LET lines == FileSystem[filename]
         IN  stripSpaces(ScanAll(Open(FirstBytes(lines[1])), lines).licenseText)

checkSPDX(name, filename) == ScanAllSPDX(OpenSPDX, FileSystem[filename], name).found

\* The name of the first approved license whose text the header contains, else "".
RECURSIVE accepted_license(_, _)
accepted_license(check, approved) ==
    IF approved = <<>> THEN <<>>
    ELSE IF Contains(check, Head(approved).Text) THEN Head(approved).Name
    ELSE accepted_license(check, Tail(approved))

\* A bug exclude could have: the pattern is only looked for at the path's start.
exclude_AtStart(path, excludes) == \E i \in 1..Len(excludes) : HasPrefix(path, excludes[i])

exclude(path, excludes) == \E i \in 1..Len(excludes) : Contains(path, excludes[i])

\* Lines 430-438: the accepted licenses of a -license list.
RECURSIVE LoadLicenses(_)
LoadLicenses(names) ==
    IF names = <<>> THEN <<>>
    ELSE LET l == Head(names)
         IN  <<[Name |-> l, Text |-> fetchLicense(l)]>>
             \o (IF l = <<"Apache-2.0">>
                 THEN <<[Name |-> l, Text |-> fetchLicense(<<"Apache-2.0-ASF">>)]>>
                 ELSE <<>>)
             \o LoadLicenses(Tail(names))

\* A bug the header count could have: a file without a header is not counted.
CountHeader_PassOnly(n, name) == IF name # <<>> THEN [n EXCEPT !.pass = @ + 1] ELSE n

\* Lines 453-459.
CountHeader(n, name) ==
    IF name # <<>> THEN [n EXCEPT !.pass = @ + 1] ELSE [n EXCEPT !.miss = @ + 1]

\* Lines 462-468.
CountSPDX(n, ok) ==
    IF ok THEN [n EXCEPT !.spdx_pass = @ + 1] ELSE [n EXCEPT !.spdx_miss = @ + 1]

\* The glyph printed for a passed or failed check.
Glyph(ok) == IF ok THEN "pass" ELSE "fail"

\* A bug the exit test could have: the SPDX count is left out.
ExitStatus_HeaderOnly(n) == IF n.miss # 0 THEN 1 ELSE 0

\* Lines 481-483, and 0 from falling off the end of main.
ExitStatus(n) == IF n.miss # 0 \/ n.spdx_miss # 0 THEN 1 ELSE 0

\* ===================================================== the scan, line by line

\* fetchLicense's three revisions and checkSPDX, each scanning one file.
Fns == {"fetchLicense", "fetchLicense_p0", "fetchLicense_v0", "checkSPDX"}

\* The lines a file is made of.
Lines ==
    { <<"/", "*">>,
      <<"/", "*", " ", "a">>,
      <<" ", "*", " ", "b">>,
      <<"b", " ", "*", "/">>,
      <<" ", "*", "/">>,
      <<"/", "*", " ", "a", " ", "*", "/">>,
      <<"/", "/", " ", "a">>,
      <<"/", "/">>,
      <<"#", " ", "b">>,
      <<"#", "!", "/", "a">>,
      <<"/", "/", " ", "Copyright", " ", "a">>,
      <<" ", "*", " ", "Copyright", " ", "*", "/">>,
      <<"Copyright", " ", "a">>,
      <<"/", "/", " ", "SPDX-License-Identifier", ":", " ", "mit">>,
      <<"SPDX-License-Identifier", ":", " ", "Apache-2.0">>,
      <<" ", "*", " ", "Contributors", ":">>,
      <<"MIT", " ", "License">>,
      <<"/", "/", " ", "All rights reserved.", " ", "b">>,
      <<"a">>,
      <<>> }

\* The lines a file goes on with after its first RichLines lines.
TailLines ==
    { <<"/", "/", " ", "a">>, <<"a">>,
      <<"/", "/", " ", "SPDX-License-Identifier", ":", " ", "mit">> }

\* The expected short names checkSPDX is called with: a registry name, a
\* license file's path, or "" for a header that matched nothing.
LicenseNames == { <<"MIT">>, <<"Apache-2.0">>, <<"EPL-1.0">>, <<"license.txt">>, <<>> }

\* A file's first RichLines lines are any of Lines, the rest any of TailLines.
RichLines == 2
\* The files scanned accumulate at most MaxText tokens of header text.
MaxText == 3
\* The files scanned are at most Overrun lines longer than the line maximum.
Overrun == 2

\* The revision's line maximum.
MaxOf(f) ==
    CASE f = "fetchLicense_p0" -> LINES_MAX_p0
      [] f = "fetchLicense_v0" -> LINES_MAX_v0
      [] OTHER -> LICENSE_HEADER_LINES_MAX

\* The revision's loop body.
StepOf(f, s, line) ==
    CASE f = "fetchLicense_p0" -> Step_p0(s, line)
      [] f = "fetchLicense_v0" -> Step_v0(s, line)
      [] OTHER -> Step(s, line)

VARIABLES
    fn,        \* the function scanning
    license,   \* checkSPDX's expected short name
    pos,       \* lines the scanner has delivered
    cur,       \* scanner.Text(), the line delivered last
    st,        \* fetchLicense's locals
    sp,        \* checkSPDX's locals
    pc,        \* "scan" | "returned" | "idle"
    result,    \* the value returned
    tw,        \* history: the same scan of the file without its noise lines
    twStarted, \* history: that file has a first line
    hdrEnded,  \* history: a line outside any comment has been scanned
    blk,       \* history: where the scan is in a leading /* ... */ block
    args,      \* main: the flags -license, -exclude (split at commas), -disable-spdx
    accepted_licenses,
    checkFiles, \* main: what findFiles returned
    k,         \* main: files of checkFiles the loop has been through
    count,     \* main: ignore, miss, pass, spdx_miss, spdx_pass
    out,       \* main: the lines printed
    calls,     \* history: the calls of fetchLicense and checkSPDX on checked files
    exitCode,  \* main: the exit status, -1 while running
    mpc        \* main: "start" | "loop" | "exit" | "idle"

scanVars == <<fn, license, pos, cur, st, sp, pc, result, tw, twStarted, hdrEnded, blk>>
mainVars == <<args, accepted_licenses, checkFiles, k, count, out, calls, exitCode, mpc>>
vars == <<scanVars, mainVars>>

\* main is not running.
MainIdle ==
    /\ args = <<>> /\ accepted_licenses = <<>> /\ checkFiles = <<>> /\ k = 0
    /\ count = <<>> /\ out = <<>> /\ calls = {} /\ exitCode = -1 /\ mpc = "idle"

\* No scan is being followed line by line.
ScanIdle ==
    /\ fn = "" /\ license = <<>> /\ pos = 0 /\ cur = <<>> /\ st = <<>> /\ sp = <<>>
    /\ pc = "idle" /\ result = <<>> /\ tw = <<>> /\ twStarted = FALSE
    /\ hdrEnded = FALSE /\ blk = "none"

\* The lines the specification calls noise (4.2), whatever the code does with them.
NoiseLine(line) ==
    LET s == ToUpper(trimComment(Normalise(line)))
    IN  \/ HasPrefix(line, <<"#", "!">>)
        \/ HasPrefix(s, <<"COPYRIGHT">>)
        \/ HasPrefix(s, <<"SPDX-LICENSE-IDENTIFIER">>)
        \/ HasPrefix(s, <<"MIT", " ", "LICENSE">>)

\* A contributor list line of an EPL header (4.2).
ContributorsLine(line) ==
    Contains(ToUpper(line), <<" ", "*", " ", "CONTRIBUTORS", ":">>)

\* The line on which the loop meets the test "outside any block, not a comment"
\* (lhc.go 337, part_000 112, lhc.go 85), from the locals before the line.
StopLine(f, s, line) ==
    CASE f = "fetchLicense_p0" ->
             /\ s.i + 1 <= LINES_MAX_p0 /\ ~ignoreComment_p0(line) /\ s.comment
             /\ ~BlockFlag(s.multilineComment, line) /\ ~isComment(line)
      [] f = "fetchLicense_v0" ->
             /\ ~Skipped_v0(line) /\ s.comment
             /\ ~BlockFlag_v0(s.multilineComment, line) /\ ~isComment(line)
      [] OTHER ->
             /\ s.i + 1 <= LICENSE_HEADER_LINES_MAX /\ ~ignoreComment(Normalise(line))
             /\ s.comment
             /\ ~BlockFlag(s.multilineComment, Normalise(line))
             /\ ~isComment(Normalise(line))

\* Where a file that opens with a /* line is: in the block, on the line that
\* closes it, or past it.
BlockPhase(b, p, line) ==
    IF p = 0
    THEN IF HasPrefix(line, <<"/", "*">>) /\ ~Contains(line, <<"*", "/">>)
         THEN "open" ELSE "none"
    ELSE IF b = "open"
         THEN IF Contains(line, <<"*", "/">>) THEN "closing" ELSE "open"
         ELSE IF b = "closing" THEN "closed" ELSE b

InitScan ==
    /\ fn \in Fns
    /\ license \in (IF fn = "checkSPDX" THEN LicenseNames ELSE {<<>>})
    /\ pos = 0
    /\ cur = <<>>
    /\ st = Open(<<>>)
    /\ sp = OpenSPDX
    /\ pc = "scan"
    /\ result = <<>>
    /\ tw = Open(<<>>)
    /\ twStarted = FALSE
    /\ hdrEnded = FALSE
    /\ blk = "none"
    /\ MainIdle

\* scanner.Scan() delivers a line and fetchLicense's loop body runs on it.
ScanLine(line) ==
    /\ pc = "scan" /\ fn # "checkSPDX" /\ ~st.done
    /\ pos < MaxOf(fn) + Overrun
    /\ LET s0 == IF pos = 0 THEN Open(FirstBytes(line)) ELSE st
           n == StepOf(fn, s0, line)
           t0 == IF twStarted THEN tw ELSE Open(FirstBytes(line))
           t == IF fn # "fetchLicense" \/ NoiseLine(line) THEN tw ELSE Step(t0, line)
       IN  /\ Len(n.licenseText) <= MaxText
           /\ Len(t.licenseText) <= MaxText
           /\ st' = n
           /\ tw' = t
           /\ twStarted' = (twStarted \/ (fn = "fetchLicense" /\ ~NoiseLine(line)))
           /\ hdrEnded' = (hdrEnded \/ StopLine(fn, s0, line))
    /\ blk' = BlockPhase(blk, pos, line)
    /\ pos' = pos + 1
    /\ cur' = line
    /\ UNCHANGED <<fn, license, sp, pc, result>>
    /\ UNCHANGED mainVars

\* scanner.Scan() delivers a line and checkSPDX's loop body runs on it.
ScanSPDX(line) ==
    /\ pc = "scan" /\ fn = "checkSPDX" /\ ~sp.done
    /\ pos < MaxOf(fn) + Overrun
    /\ sp' = StepSPDX(sp, line, license)
    /\ pos' = pos + 1
    /\ cur' = line
    /\ UNCHANGED <<fn, license, st, pc, result, tw, twStarted, hdrEnded, blk>>
    /\ UNCHANGED mainVars

\* The loop ends, at the end of the file or by a break, and the function returns.
\* (An empty file fails the two-byte read and the process exits: pos > 0.)
Return ==
    /\ pc = "scan" /\ pos > 0
    /\ pc' = "returned"
    /\ result' = IF fn = "checkSPDX" THEN <<sp.found>> ELSE stripSpaces(st.licenseText)
    /\ UNCHANGED <<fn, license, pos, cur, st, sp, tw, twStarted, hdrEnded, blk>>
    /\ UNCHANGED mainVars

NextScan ==
    \/ \E line \in (IF pos < RichLines THEN Lines ELSE TailLines) : ScanLine(line)
    \/ \E line \in (IF pos < RichLines THEN Lines ELSE TailLines) : ScanSPDX(line)
    \/ Return

SpecScan == InitScan /\ [][NextScan]_vars

\* ================================================================= main

\* findFiles returns at most MaxFiles paths.
MaxFiles == 2

\* The -license lists, split at commas.
LicenseArgs ==
    { << <<"MIT">> >>, << <<"Apache-2.0">> >>, << <<"EPL-1.0">>, <<"MIT">> >>,
      << <<"license.txt">> >> }

\* The -exclude values, split at commas; the default "" splits into one empty part.
ExcludeArgs ==
    { << <<>> >>, << <<"gen", "/">> >>, << <<"x">>, <<"gen", "/">> >>,
      << <<"gen", "/">>, <<>> >> }

\* The sequences of at most len elements of S.
SeqsUpTo(S, len) == UNION {[1..m -> S] : m \in 0..len}

\* After flag.Parse(), -version not given.
Init ==
    /\ args \in [license : LicenseArgs, exclude : ExcludeArgs, disableSPDX : BOOLEAN]
    /\ accepted_licenses = <<>>
    /\ checkFiles = <<>>
    /\ k = 0
    /\ count = [ignore |-> 0, miss |-> 0, pass |-> 0, spdx_miss |-> 0, spdx_pass |-> 0]
    /\ out = <<>>
    /\ calls = {}
    /\ exitCode = -1
    /\ mpc = "start"
    /\ ScanIdle

\* Lines 429-441: the licenses are loaded and the files found.
Load ==
    /\ mpc = "start"
    /\ accepted_licenses' = LoadLicenses(args.license)
    /\ checkFiles' \in SeqsUpTo(SourceFiles, MaxFiles)
    /\ mpc' = "loop"
    /\ UNCHANGED <<args, k, count, out, calls, exitCode>>
    /\ UNCHANGED scanVars

\* Lines 444-447: the next file is excluded.
SkipExcluded ==
    /\ mpc = "loop" /\ k < Len(checkFiles)
    /\ args.exclude # << <<>> >> /\ exclude(checkFiles[k + 1], args.exclude)
    /\ count' = [count EXCEPT !.ignore = @ + 1]
    /\ k' = k + 1
    /\ UNCHANGED <<args, accepted_licenses, checkFiles, out, calls, exitCode, mpc>>
    /\ UNCHANGED scanVars

\* Lines 449-470: the next file is checked and its result printed.
CheckFile ==
    /\ mpc = "loop" /\ k < Len(checkFiles)
    /\ ~(args.exclude # << <<>> >> /\ exclude(checkFiles[k + 1], args.exclude))
    /\ LET file == checkFiles[k + 1]
           headerText == fetchLicense(file)
           name == accepted_license(headerText, accepted_licenses)
           n1 == CountHeader(count, name)
           spdx == checkSPDX(name, file)
       IN  IF ~args.disableSPDX
           THEN /\ count' = CountSPDX(n1, spdx)
                /\ out' = Append(out, [result |-> <<Glyph(name # <<>>), Glyph(spdx)>>,
                                       file |-> file])
                /\ calls' = calls \cup {<<"fetchLicense", k + 1>>, <<"checkSPDX", k + 1>>}
           ELSE /\ count' = n1
                /\ out' = Append(out, [result |-> <<Glyph(name # <<>>)>>, file |-> file])
                /\ calls' = calls \cup {<<"fetchLicense", k + 1>>}
    /\ k' = k + 1
    /\ UNCHANGED <<args, accepted_licenses, checkFiles, exitCode, mpc>>
    /\ UNCHANGED scanVars

\* Lines 473-484: the summary is printed and the process exits.
Summary ==
    /\ mpc = "loop" /\ k = Len(checkFiles)
    /\ out' = out
              \o <<[line |-> "License", total |-> Len(checkFiles), ignored |-> count.ignore,
                    missing |-> count.miss, passed |-> count.pass]>>
              \o (IF ~args.disableSPDX
                  THEN <<[line |-> "SPDX", total |-> Len(checkFiles),
                          missing |-> count.spdx_miss, passed |-> count.spdx_pass]>>
                  ELSE <<>>)
    /\ exitCode' = ExitStatus(count)
    /\ mpc' = "exit"
    /\ UNCHANGED <<args, accepted_licenses, checkFiles, k, count, calls>>
    /\ UNCHANGED scanVars

Next == Load \/ SkipExcluded \/ CheckFile \/ Summary

Spec == Init /\ [][Next]_vars

\* ------------------------------------------------- the claims about main

\* The path holds one of the -exclude substrings.
HoldsExcludeSubstring(path) ==
    /\ args.exclude # << <<>> >>
    /\ \E i \in 1..Len(args.exclude) : Occurrences(path, args.exclude[i]) # {}

\* The file's header matches none of the accepted licenses.
HeaderMatchesNone(file) == accepted_license(fetchLicense(file), accepted_licenses) = <<>>

\* The file's SPDX check, as main runs it, fails.
SPDXFails(file) ==
    ~checkSPDX(accepted_license(fetchLicense(file), accepted_licenses), file)

\* C1: main exits with 1 exactly when a file that is not excluded has a header
\* matching no accepted license or, SPDX checking not disabled, fails the SPDX
\* check; otherwise it exits with 0.
C1_ExitStatus ==
    mpc = "exit" =>
        /\ exitCode \in {0, 1}
        /\ (exitCode = 1) =
             (\E j \in 1..Len(checkFiles) :
                 /\ ~HoldsExcludeSubstring(checkFiles[j])
                 /\ \/ HeaderMatchesNone(checkFiles[j])
                    \/ ~args.disableSPDX /\ SPDXFails(checkFiles[j]))

\* C1's case: every header passed and an SPDX check that failed alone makes the
\* status 1.
C1_Witness ==
    /\ mpc = "exit" /\ ~args.disableSPDX /\ exitCode = 1
    /\ count.miss = 0 /\ count.spdx_miss > 0

\* The SPDX lines of a file.
SPDXLines(file) ==
    SelectSeq(FileSystem[file], LAMBDA l : Contains(ToUpper(l), SPDXMarker))

\* C4: two checked files with the same SPDX lines get the same SPDX glyph,
\* whether or not their headers matched an accepted license.
C4_SPDXIndependentOfHeader ==
    ~args.disableSPDX =>
        \A i, j \in 1..Len(out) :
            (/\ "file" \in DOMAIN out[i] /\ "file" \in DOMAIN out[j]
             /\ SPDXLines(out[i].file) = SPDXLines(out[j].file))
            => out[i].result[2] = out[j].result[2]

\* C6: a file whose path holds an -exclude substring adds one to ignore and to
\* nothing else, is passed to neither fetchLicense nor checkSPDX, and prints
\* nothing.
C6_ExcludedOnlyIgnored ==
    [][(k' = k + 1 /\ HoldsExcludeSubstring(checkFiles[k + 1]))
       => /\ count' = [count EXCEPT !.ignore = @ + 1]
          /\ calls' = calls
          /\ out' = out]_vars

\* C6's case: the loop has just been through a file with an -exclude substring
\* inside its path.
C6_Witness ==
    /\ mpc = "loop" /\ k > 0 /\ count.ignore > 0
    /\ HoldsExcludeSubstring(checkFiles[k])
    /\ \A i \in 1..Len(args.exclude) : ~HasPrefix(checkFiles[k], args.exclude[i])

\* C10: ignore + miss + pass is the number of files the loop has been through,
\* and the License Total printed; with SPDX checking on, spdx_miss + spdx_pass
\* is miss + pass.
C10_Accounting ==
    mpc \in {"loop", "exit"} =>
        /\ count.ignore + count.miss + count.pass = k
        /\ ~args.disableSPDX => count.spdx_miss + count.spdx_pass = count.miss + count.pass
        /\ mpc = "exit" =>
              \E i \in 1..Len(out) :
                  /\ "line" \in DOMAIN out[i] /\ out[i].line = "License"
                  /\ out[i].total = count.ignore + count.miss + count.pass
                  /\ out[i].ignored = count.ignore /\ out[i].missing = count.miss
                  /\ out[i].passed = count.pass

\* C10's case: an excluded file, a file without a header and the summary.
C10_Witness ==
    /\ mpc = "exit" /\ ~args.disableSPDX
    /\ count.ignore = 1 /\ count.miss = 1 /\ count.spdx_miss = 1

\* ------------------------------------------------- the claims about the scan

\* A line has just been scanned by fetchLicense's loop.
Scanned == fn # "checkSPDX" /\ pos > 0 /\ pc = "scan"

\* C2: in every revision of fetchLicense, once a comment-syntax file has shown
\* a line that is not noise, not inside an open block and not a comment, no
\* later line adds text to the header.
C2_ScanStopsAtFirstCodeLine ==
    [][hdrEnded => st'.licenseText = st.licenseText]_vars

\* C2 holds of the two earlier revisions, which break out of the loop there.
C2_EarlierRevisionsStop ==
    [][fn # "fetchLicense" /\ hdrEnded => st'.licenseText = st.licenseText]_vars

\* The value the claim reads off an SPDX line: what follows the marker's colon.
SPDXValue(s) ==
    SubSeq(s, Min(Occurrences(s, SPDXMarker)) + Len(SPDXMarker) + 1, Len(s))

\* C3: checkSPDX(N, file) is true exactly when the first SPDX line within the
\* first 50 lines carries a value equal to N, whitespace removed and letter
\* case ignored.
C3_SPDXComparesIgnoringCase ==
    (fn = "checkSPDX" /\ pc = "returned") =>
        (result = <<TRUE>>) =
            (/\ pos <= LICENSE_HEADER_LINES_MAX
             /\ Contains(ToUpper(cur), SPDXMarker)
             /\ stripSpaces(SPDXValue(ToUpper(cur))) = ToUpper(license))

\* C3 holds for the expected names that are already upper case.
C3_UpperCaseNames ==
    (fn = "checkSPDX" /\ pc = "returned" /\ license = ToUpper(license)) =>
        (result = <<TRUE>>) =
            (/\ pos <= LICENSE_HEADER_LINES_MAX
             /\ Contains(ToUpper(cur), SPDXMarker)
             /\ stripSpaces(SPDXValue(ToUpper(cur))) = ToUpper(license))

\* The text of a line of a block comment: what precedes */, comment markers
\* stripped.
BlockLineText(line) == trimComment(SplitHead(Normalise(line), <<"*", "/">>))

\* C5: in the final fetchLicense, every line of a leading block, from the /*
\* line to the line holding */, that is not noise adds its comment-stripped
\* text to the header.
C5_BlockFullyCaptured ==
    [][(/\ fn = "fetchLicense" /\ pos' = pos + 1 /\ pos' <= LICENSE_HEADER_LINES_MAX
        /\ blk' \in {"open", "closing"}
        /\ ~NoiseLine(cur') /\ ~ContributorsLine(cur'))
       => st'.licenseText = st.licenseText \o BlockLineText(cur')]_vars

\* C5 holds of the lines before the closing one.
C5_OpenLinesCaptured ==
    [][(/\ fn = "fetchLicense" /\ pos' = pos + 1 /\ pos' <= LICENSE_HEADER_LINES_MAX
        /\ blk' = "open"
        /\ ~NoiseLine(cur') /\ ~ContributorsLine(cur'))
       => st'.licenseText = st.licenseText \o BlockLineText(cur')]_vars

\* C7: within the line budget the final fetchLicense returns, for a file, what
\* it returns for the file without its noise lines (both files read as comment
\* syntax, or both as plain text).
C7_NoiseLinesTransparent ==
    (/\ fn = "fetchLicense" /\ pc = "returned" /\ pos <= LICENSE_HEADER_LINES_MAX
     /\ twStarted /\ tw.comment = st.comment)
    => result = stripSpaces(tw.licenseText)

\* C8: no line past the revision's maximum is appended to the header or matched
\* as the SPDX line.
C8_LineBudget ==
    [][pos' = pos + 1 /\ pos' > MaxOf(fn)
       => st'.licenseText = st.licenseText /\ sp'.found = sp.found]_vars

\* C8 holds of every revision but the earliest.
C8_LaterRevisionsBudget ==
    [][fn # "fetchLicense_v0" /\ pos' = pos + 1 /\ pos' > MaxOf(fn)
       => st'.licenseText = st.licenseText /\ sp'.found = sp.found]_vars

\* C9: after a scanned line that holds */ the scan is outside a block, and
\* after one that starts with /* and holds no */ it is inside one.
C9_BlockFlagFollowsRule ==
    (/\ Scanned /\ fn \in {"fetchLicense", "fetchLicense_p0"} /\ st.comment
     /\ pos <= MaxOf(fn))
    => /\ Contains(cur, <<"*", "/">>) => ~st.multilineComment
       /\ (HasPrefix(cur, <<"/", "*">>) /\ ~Contains(cur, <<"*", "/">>)) => st.multilineComment

====
